---- MODULE Spec2Model ----
(***************************************************************************)
(* A model of the request-authorization pipeline of the OAuth secured     *)
(* NodeJS API sample: the claims cache (ClaimsCache over node-cache), the *)
(* Express authorization handler (WebApi / HttpConfiguration) and the     *)
(* claims lookup promise chain (ClaimsHandler).                           *)
(*                                                                         *)
(* Time is the value of Date.now().  The code divides it by 1000 to get   *)
(* epoch seconds and node-cache multiplies a ttl in seconds by 1000; the  *)
(* model keeps both conversions and counts TicksPerSecond ticks to the    *)
(* second in place of 1000 milliseconds.                                  *)
(***************************************************************************)
EXTENDS Integers, Sequences, FiniteSets, TLC

\* ------------------------------------------------------------------------
\* Bounds of the model
\* ------------------------------------------------------------------------

\* Clock resolution: ticks of Date.now() per second (1000 in the code)
TicksPerSecond == 2

\* The number of times the clock is advanced in one behaviour
MaxAdvances == 4

\* The value of Date.now(), in seconds, when the process starts
StartSeconds == 1

\* ------------------------------------------------------------------------
\* Program constants and input domains
\* ------------------------------------------------------------------------

\* timeToLiveMinutes * 60
SecondsPerMinute == 60

\* Values of claimsCacheTimeToLiveMinutes in the configuration file
TtlMinutes == {0, 1}

\* SHA256 hashes of access tokens, used as cache keys
Digests == {"hA", "hB"}

\* The exp claim (epoch seconds) of the token behind each hash
TokenExpiry(d) == IF d = "hA" THEN 3 ELSE 200

\* User info and custom claims looked up for a token
UserInfos == {"u1", "u2"}

\* Steps by which the clock moves, in ticks
AdvanceSteps == {1, TicksPerSecond, SecondsPerMinute * TicksPerSecond}

\* The value undefined of a claims text, a missing cache entry, and the
\* value null of a claims object
Undefined == <<>>
NoEntry == [v |-> Undefined, t |-> -1]
Null == [expiry |-> -1, userInfo |-> "null"]

VARIABLES
    timeToLiveMinutes,  \* configuration: claimsCacheTimeToLiveMinutes
    now,                \* Date.now() in ticks
    advances,           \* the number of clock advances so far
    cache,              \* NodeCache data: hash -> [v: claims text, t: livetime]
    ret,                \* the last ClaimsCache call and what it returned
    putLog,             \* per hash: the last addClaimsForToken that stored
    skipped,            \* hashes for which addClaimsForToken stored nothing
    authorizationHeader,\* request.header('authorization') given to _readAccessToken
    accessToken,        \* what _readAccessToken returned for it
    req,                \* the API requests in Express and their progress
    metadata,           \* ClaimsHandler: the module level metadata
    lookups,            \* ClaimsHandler: the lookupClaims promise chains
    startup,            \* the application entry point and its HTTP server
    root,               \* BaseCompositionRoot, its authorizer and its container
    traceLog,           \* the messages that ClaimsCache has logged
    presented           \* the access token for which the cache was last called

cacheVars == <<timeToLiveMinutes, now, advances, cache, ret, putLog, skipped>>
headerVars == <<authorizationHeader, accessToken>>
apiVars == <<req>>
lookupVars == <<metadata, lookups>>
hostVars == <<startup, root, traceLog, presented>>

vars == <<cacheVars, headerVars, apiVars, lookupVars, hostVars>>

\* ------------------------------------------------------------------------
\* ClaimsProvider: serialization of claims for the cache
\* ------------------------------------------------------------------------

\* An ApiClaims object: token claims (with expiry) plus looked up claims
ApiClaims(d, u) == [expiry |-> TokenExpiry(d), userInfo |-> u]

\* ClaimsProvider.serializeToCache: the claims as JSON text
serializeToCache(claims) == <<"token", claims.expiry, "userInfo", claims.userInfo>>

\* ClaimsProvider.deserializeFromCache: the claims parsed from JSON text
deserializeFromCache(claimsText) == [expiry |-> claimsText[2], userInfo |-> claimsText[4]]

\* ------------------------------------------------------------------------
\* node-cache (version 5.1.2) as used by ClaimsCache
\* ------------------------------------------------------------------------

\* NodeCache._wrap: a ttl of 0 means the value never expires (livetime 0),
\* any other ttl gives livetime = Date.now() + ttl * 1000
Wrap(value, ttl, nowT) ==
    [v |-> value, t |-> IF ttl = 0 THEN 0 ELSE nowT + ttl * TicksPerSecond]

\* NodeCache._check: data is expired when its livetime is not 0 and is
\* before Date.now()
IsExpired(data, nowT) == data.t # 0 /\ data.t < nowT

\* A get that looks under another key and so never finds the value
CacheGetMiss(c, d, nowT) == Undefined

\* NodeCache.get: the value of a key that is present and not expired,
\* undefined otherwise
CacheGet(c, d, nowT) ==
    IF c[d] # NoEntry /\ ~IsExpired(c[d], nowT) THEN c[d].v ELSE Undefined

\* NodeCache.get deletes an expired entry that it finds (deleteOnExpire)
CacheAfterGet(c, d, nowT) ==
    IF c[d] # NoEntry /\ IsExpired(c[d], nowT) THEN [c EXCEPT ![d] = NoEntry] ELSE c

\* No call of the cache yet, and no claims stored yet for a hash
NoCall == [op |-> "none", digest |-> "none", at |-> 0, result |-> Null, prior |-> -1]
NoPut == [at |-> 0, ttl |-> 0, claims |-> Null]

\* The livetime of the entry of a key when the call began, -1 when the key
\* was missing or expired (recorded with each call for the properties)
LiveTime(c, d, nowT) ==
    IF c[d] # NoEntry /\ ~IsExpired(c[d], nowT) THEN c[d].t ELSE -1

\* ------------------------------------------------------------------------
\* ClaimsCache
\* ------------------------------------------------------------------------

\* ClaimsCache constructor: stdTTL of the cache in seconds
defaultExpirySeconds(minutes) == minutes * SecondsPerMinute

stdTTL == defaultExpirySeconds(timeToLiveMinutes)

\* Math.floor(new Date() / 1000)
epochSeconds(nowT) == nowT \div TicksPerSecond

\* addClaimsForToken: the seconds to cache, before it is tested against 0
secondsToExpiry(claims, nowT) == claims.expiry - epochSeconds(nowT)

\* addClaimsForToken: the ttl passed to NodeCache.set
secondsToCache(claims, nowT, maxTtl) ==
    IF secondsToExpiry(claims, nowT) > maxTtl
    THEN maxTtl
    ELSE secondsToExpiry(claims, nowT)

\* A getClaimsForToken that renews the time to live of the entry it finds
getClaimsForTokenSliding(d) ==
    LET claimsText == CacheGet(cache, d, now) IN
    /\ cache' = IF claimsText = Undefined
                THEN CacheAfterGet(cache, d, now)
                ELSE [cache EXCEPT ![d] = Wrap(claimsText, stdTTL, now)]
    /\ ret' = [op |-> "get", digest |-> d, at |-> now,
               result |-> IF claimsText = Undefined THEN Null
                          ELSE deserializeFromCache(claimsText),
               prior |-> LiveTime(cache, d, now)]

\* ClaimsCache.getClaimsForToken
getClaimsForToken(d) ==
    LET claimsText == CacheGet(cache, d, now) IN
    /\ cache' = CacheAfterGet(cache, d, now)
    /\ ret' = [op |-> "get", digest |-> d, at |-> now,
               result |-> IF claimsText = Undefined THEN Null
                          ELSE deserializeFromCache(claimsText),
               prior |-> LiveTime(cache, d, now)]

GetClaimsForToken(d) ==
    /\ getClaimsForToken(d)
    /\ UNCHANGED <<timeToLiveMinutes, now, advances, putLog, skipped>>
    /\ UNCHANGED <<headerVars, apiVars, lookupVars, hostVars>>

\* An addClaimsForToken that leaves the claims of an entry that is present
addClaimsForTokenKeepFirst(d, claims) ==
    IF secondsToExpiry(claims, now) > 0
    THEN /\ cache' = IF CacheGet(cache, d, now) # Undefined
                     THEN cache
                     ELSE [cache EXCEPT ![d] =
                            Wrap(serializeToCache(claims),
                                 secondsToCache(claims, now, stdTTL), now)]
         /\ putLog' = [putLog EXCEPT ![d] =
                [at |-> now, ttl |-> secondsToCache(claims, now, stdTTL),
                 claims |-> claims]]
         /\ ret' = [op |-> "add", digest |-> d, at |-> now, result |-> "stored",
                    prior |-> LiveTime(cache, d, now)]
         /\ UNCHANGED skipped
    ELSE /\ skipped' = skipped \cup {d}
         /\ ret' = [op |-> "add", digest |-> d, at |-> now, result |-> "skipped",
                    prior |-> LiveTime(cache, d, now)]
         /\ UNCHANGED <<cache, putLog>>

\* An addClaimsForToken that caches the claims of an expired token as well
addClaimsForTokenAlways(d, claims) ==
    /\ cache' = [cache EXCEPT ![d] =
            Wrap(serializeToCache(claims), secondsToCache(claims, now, stdTTL), now)]
    /\ putLog' = [putLog EXCEPT ![d] =
            [at |-> now, ttl |-> secondsToCache(claims, now, stdTTL),
             claims |-> claims]]
    /\ ret' = [op |-> "add", digest |-> d, at |-> now, result |-> "stored",
               prior |-> LiveTime(cache, d, now)]
    /\ UNCHANGED skipped

\* ClaimsCache.addClaimsForToken
addClaimsForToken(d, claims) ==
    IF secondsToExpiry(claims, now) > 0
    THEN /\ cache' = [cache EXCEPT ![d] =
                Wrap(serializeToCache(claims), secondsToCache(claims, now, stdTTL), now)]
         /\ putLog' = [putLog EXCEPT ![d] =
                [at |-> now, ttl |-> secondsToCache(claims, now, stdTTL),
                 claims |-> claims]]
         /\ ret' = [op |-> "add", digest |-> d, at |-> now, result |-> "stored",
                    prior |-> LiveTime(cache, d, now)]
         /\ UNCHANGED skipped
    ELSE /\ skipped' = skipped \cup {d}
         /\ ret' = [op |-> "add", digest |-> d, at |-> now, result |-> "skipped",
                    prior |-> LiveTime(cache, d, now)]
         /\ UNCHANGED <<cache, putLog>>

AddClaimsForToken(d, u) ==
    /\ addClaimsForToken(d, ApiClaims(d, u))
    /\ UNCHANGED <<timeToLiveMinutes, now, advances>>
    /\ UNCHANGED <<headerVars, apiVars, lookupVars, hostVars>>

\* NodeCache._checkData: the periodic sweep deletes every expired entry
checkData ==
    /\ \E d \in Digests : cache[d] # NoEntry /\ IsExpired(cache[d], now)
    /\ cache' = [d \in Digests |->
                    IF cache[d] # NoEntry /\ IsExpired(cache[d], now)
                    THEN NoEntry ELSE cache[d]]

CheckData ==
    /\ checkData
    /\ UNCHANGED <<timeToLiveMinutes, now, advances, ret, putLog, skipped>>
    /\ UNCHANGED <<headerVars, apiVars, lookupVars, hostVars>>

\* The passage of time
Advance(step) ==
    /\ advances < MaxAdvances
    /\ now' = now + step
    /\ advances' = advances + 1
    /\ UNCHANGED <<timeToLiveMinutes, cache, ret, putLog, skipped>>
    /\ UNCHANGED <<headerVars, apiVars, lookupVars, hostVars>>

\* ------------------------------------------------------------------------
\* WebApi._readAccessToken
\* ------------------------------------------------------------------------

\* A string is a sequence of symbols: the space character and words that
\* hold no space.  Juxtaposed words are one longer word without a space.
Space == " "
Words == {"Bearer", "bearer", "Basic", "tA", "tB", "tX"}
Symbols == Words \cup {Space}

\* The value of a header that is not sent and of a null token
NullString == <<"<null>">>

\* The value of accessToken before _readAccessToken has run
NotRead == <<"<unread>">>

\* String.split(' '): the parts between single spaces ("" gives [""])
RECURSIVE Split(_)
Split(str) ==
    IF str = <<>> THEN << <<>> >>
    ELSE IF Head(str) = Space THEN << <<>> >> \o Split(Tail(str))
    ELSE LET rest == Split(Tail(str))
         IN << <<Head(str)>> \o Head(rest) >> \o Tail(rest)

\* A _readAccessToken that does not compare the scheme with Bearer
readAccessTokenAnyScheme(header) ==
    IF header # NullString /\ header # <<>>
    THEN LET parts == Split(header)
         IN IF Len(parts) = 2 THEN parts[2] ELSE NullString
    ELSE NullString

\* A _readAccessToken that compares the scheme without regard to case
readAccessTokenIgnoreCase(header) ==
    IF header # NullString /\ header # <<>>
    THEN LET parts == Split(header)
         IN IF Len(parts) = 2 /\ parts[1] \in {<<"Bearer">>, <<"bearer">>}
            THEN parts[2]
            ELSE NullString
    ELSE NullString

\* WebApi._readAccessToken
readAccessToken(header) ==
    IF header # NullString /\ header # <<>>
    THEN LET parts == Split(header)
         IN IF Len(parts) = 2 /\ parts[1] = <<"Bearer">>
            THEN parts[2]
            ELSE NullString
    ELSE NullString

\* The call of _readAccessToken on the header of a request
ReadAccessToken ==
    /\ accessToken = NotRead
    /\ accessToken' = readAccessToken(authorizationHeader)
    /\ UNCHANGED <<authorizationHeader, cacheVars, apiVars, lookupVars, hostVars>>

\* ------------------------------------------------------------------------
\* Express: the middleware and routes set up by HttpConfiguration.initializeApi
\* ------------------------------------------------------------------------

\* The API requests in flight
Requests == {"r1", "r2"}

\* Authorization headers that clients send (NullString: no header); the
\* token tA is refused as expired once its exp has passed
Headers == {
    NullString,
    <<"Bearer", Space, "tA">>,
    <<"Bearer", Space, "tB">>,
    <<"Basic", Space, "tA">>,
    <<"Bearer", Space>> }

\* The handlers of /api/* in the order in which initializeApi mounts them
Stack == <<"cors", "authorizationHandler", "routes", "unhandledExceptionHandler">>

\* The HTTP status of a response that has not been written
NotWritten == 0

\* A thrown value or an error object: its class (or typeof for a value that
\* is not an object), the fields that the error handling reads, and the
\* pieces of what toString() gives; "" stands for a field that is undefined
\* or empty
Thrown(type, statusCode, code, message, details, stack, text) == [
    type |-> type, statusCode |-> statusCode, code |-> code,
    message |-> message, details |-> details, stack |-> stack, text |-> text]

\* No exception
NoException == Thrown("none", 0, "", "", "", "", <<>>)

\* No response body
NoBody == [code |-> "", message |-> ""]

\* The path of a request when the model does not distinguish paths
ApiPath == "/api/companies"

\* A request that has not arrived
NoRequest == [
    pc |-> "none", header |-> NullString, path |-> ApiPath,
    layer |-> 0, token |-> NullString,
    success |-> FALSE, exception |-> NoException, claims |-> Null,
    locals |-> Null, status |-> NotWritten, nextCalls |-> 0,
    authorized |-> FALSE, handled |-> FALSE, body |-> NoBody,
    cacheCalls |-> 0, assembled |-> FALSE,
    withinTtl |-> FALSE, stored |-> Null]

\* Express hands the request to the next handler of the stack
next(request) == [request EXCEPT !.pc = "express", !.layer = @ + 1]

\* A request for a protected API route arrives (r1 names the first to arrive)
Receive(r, h) ==
    /\ req[r].pc = "none"
    /\ r = "r2" => req["r1"].pc # "none"
    /\ req' = [req EXCEPT ![r] = [NoRequest EXCEPT
                    !.pc = "express", !.layer = 1, !.header = h]]
    /\ UNCHANGED <<cacheVars, headerVars, lookupVars, hostVars>>

\* The cors middleware lets the request through
Cors(r) ==
    /\ req[r].pc = "express"
    /\ Stack[req[r].layer] = "cors"
    /\ req' = [req EXCEPT ![r] = next(@)]
    /\ UNCHANGED <<cacheVars, headerVars, lookupVars, hostVars>>

\* ------------------------------------------------------------------------
\* ClaimsMiddleware.authorizeRequestAndSetClaims with its Authenticator
\* and claims provider, under the claims caching strategy
\* ------------------------------------------------------------------------

\* Two access tokens of one hash: tC stands for any other text whose hash
\* is that of tA
SameDigestTokens == {<<"tA">>, <<"tC">>}

\* The SHA256 hash of an access token
sha256(token) ==
    IF token \in SameDigestTokens THEN "hA" ELSE IF token = <<"tB">> THEN "hB" ELSE "hX"

\* Token validation: the token was issued and its exp is in the future
IsValidToken(token, nowT) ==
    /\ sha256(token) \in Digests
    /\ epochSeconds(nowT) < TokenExpiry(sha256(token))

\* An upstream failure is thrown as an ApiError
UpstreamError ==
    Thrown("ApiError", 500, "upstream_failure", "Upstream call failed", "",
           "stack", <<"Error", "Upstream call failed">>)

\* A request without a token is refused before anything else is done
MwStart(r) ==
    /\ req[r].pc = "mwStart"
    /\ req' = [req EXCEPT ![r] =
            IF @.token = NullString \/ @.token = <<>>
            THEN [@ EXCEPT !.pc = "mwReturned", !.success = FALSE]
            ELSE [@ EXCEPT !.pc = "mwValidate"]]
    /\ UNCHANGED <<cacheVars, headerVars, lookupVars, hostVars>>

\* The token is validated: it is valid, invalid or expired, or the call
\* to the authorization server fails
MwValidate(r, upstreamFails) ==
    /\ req[r].pc = "mwValidate"
    /\ req' = [req EXCEPT ![r] =
            IF upstreamFails
            THEN [@ EXCEPT !.pc = "mwThrew", !.exception = UpstreamError]
            ELSE IF IsValidToken(@.token, now)
            THEN [@ EXCEPT !.pc = "mwLookup"]
            ELSE [@ EXCEPT !.pc = "mwReturned", !.success = FALSE]]
    /\ UNCHANGED <<cacheVars, headerVars, lookupVars, hostVars>>

\* The claims of the token are looked for in the cache
MwLookup(r) ==
    LET d == sha256(req[r].token) IN
    /\ req[r].pc = "mwLookup"
    /\ getClaimsForToken(d)
    /\ req' = [req EXCEPT ![r] =
            [(IF ret'.result # Null
              THEN [@ EXCEPT !.pc = "mwReturned", !.success = TRUE,
                             !.claims = ret'.result]
              ELSE [@ EXCEPT !.pc = "mwAssemble"])
             EXCEPT !.cacheCalls = @ + 1,
                    !.withinTtl = /\ putLog[d] # NoPut
                                  /\ now <= putLog[d].at + putLog[d].ttl * TicksPerSecond,
                    !.stored = putLog[d].claims]]
    /\ UNCHANGED <<timeToLiveMinutes, now, advances, putLog, skipped>>
    /\ UNCHANGED <<headerVars, lookupVars, hostVars>>

\* The claims are assembled from the token, user info and custom claims,
\* or one of the lookups fails
MwAssemble(r, u, upstreamFails) ==
    /\ req[r].pc = "mwAssemble"
    /\ req' = [req EXCEPT ![r] =
            IF upstreamFails
            THEN [@ EXCEPT !.pc = "mwThrew", !.exception = UpstreamError,
                           !.assembled = TRUE]
            ELSE [@ EXCEPT !.pc = "mwStore", !.assembled = TRUE,
                           !.claims = ApiClaims(sha256(req[r].token), u)]]
    /\ UNCHANGED <<cacheVars, headerVars, lookupVars, hostVars>>

\* The assembled claims are added to the cache
MwStore(r) ==
    /\ req[r].pc = "mwStore"
    /\ addClaimsForToken(sha256(req[r].token), req[r].claims)
    /\ req' = [req EXCEPT ![r] =
            [@ EXCEPT !.pc = "mwReturned", !.success = TRUE, !.cacheCalls = @ + 1]]
    /\ UNCHANGED <<timeToLiveMinutes, now, advances>>
    /\ UNCHANGED <<headerVars, lookupVars, hostVars>>

\* What can be thrown while a request is authorized: typed errors, Error
\* objects with and without a message, a string and a plain object
Exceptions == {
    UpstreamError,
    Thrown("ApiError", 500, "claims_failure", "Authorization Data Not Found", "d", "stack",
           <<"Error", "Authorization Data Not Found">>),
    Thrown("ExtendedError", 0, "metadata_lookup_failure", "Metadata lookup failed",
           "ECONNREFUSED", "stack", <<"Error", "Metadata lookup failed">>),
    Thrown("ExtendedError", 0, "json_parse_failure", "Bad JSON", "", "stack",
           <<"Error", "Bad JSON">>),
    Thrown("ClientError", 401, "unauthorized", "Missing, invalid or expired access token",
           "", "stack", <<"Error", "Missing, invalid or expired access token">>),
    Thrown("ClientError", 404, "company_not_found", "Company not found", "", "stack",
           <<"Error", "Company not found">>),
    Thrown("TypeError", 0, "", "Cannot read property of undefined", "", "stack",
           <<"TypeError", "Cannot read property of undefined">>),
    Thrown("Error", 0, "", "", "", "stack", <<"Error">>),
    Thrown("string", 0, "", "", "", "", <<"thrown text">>),
    Thrown("Object", 0, "", "", "", "", <<"[object Object]">>) }

\* The classes of the typed errors
TypedErrors == {"ApiError", "ExtendedError", "ClientError"}

\* authorizeRequestAndSetClaims seen from its caller: it returns true or
\* false, or it throws
AuthorizeRequestAndSetClaims(r, success) ==
    /\ req[r].pc = "mwStart"
    /\ req' = [req EXCEPT ![r] = [@ EXCEPT !.pc = "mwReturned", !.success = success]]
    /\ UNCHANGED <<cacheVars, headerVars, lookupVars, hostVars>>

AuthorizeRequestAndSetClaimsThrows(r, e) ==
    /\ req[r].pc = "mwStart"
    /\ req' = [req EXCEPT ![r] = [@ EXCEPT !.pc = "mwThrew", !.exception = e]]
    /\ UNCHANGED <<cacheVars, headerVars, lookupVars, hostVars>>

\* ------------------------------------------------------------------------
\* ErrorUtils
\* ------------------------------------------------------------------------

\* BaseErrorCodes.serverError and the default message of createApiError
serverError == "server_error"
defaultMessage == "An unexpected exception occurred in the API"

\* {}.toString()
ObjectToString == <<"[object Object]">>

\* Error.prototype.toString for an error of the given message
ErrorToString(message) == IF message = "" THEN <<"Error">> ELSE <<"Error", message>>

\* The null that the tryConvert functions return
NullError == Thrown("null", 0, "", "", "", "", <<>>)

\* ErrorFactory.createApiError: a new ApiError, which has status 500
ErrorFactoryCreateApiError(errorCode, message, stack) ==
    Thrown("ApiError", 500, errorCode, message, "", stack, ErrorToString(message))

\* ErrorUtils._getExceptionDetailsMessage; the toString() of a value
\* without a message is a single piece of text
getExceptionDetailsMessage(e) ==
    IF e.message # ""
    THEN e.message
    ELSE LET details == e.text IN
         IF details # ObjectToString
         THEN details[1]
         ELSE ""

\* ErrorUtils.createApiError
createApiError(exception, errorCode, message) ==
    LET defaultErrorCode == serverError
        error == ErrorFactoryCreateApiError(
                    IF errorCode # "" THEN errorCode ELSE defaultErrorCode,
                    IF message # "" THEN message ELSE defaultMessage,
                    exception.stack)
    IN [error EXCEPT !.details = getExceptionDetailsMessage(exception)]

\* ErrorUtils.tryConvertToApiError
tryConvertToApiError(exception) ==
    IF exception.type = "ApiError"
    THEN exception
    ELSE IF exception.type = "ExtendedError"
    THEN LET error == exception
             apiError == ErrorFactoryCreateApiError(error.code, error.message, error.stack)
         IN IF error.details # ""
            THEN [apiError EXCEPT !.details = error.details]
            ELSE apiError
    ELSE NullError

\* ErrorUtils.tryConvertToClientError
tryConvertToClientError(exception) ==
    IF exception.type = "ClientError" THEN exception ELSE NullError

\* A fromException that returns what was thrown when it is not a typed error
fromExceptionUnconverted(exception) ==
    LET apiError == tryConvertToApiError(exception) IN
    IF apiError # NullError
    THEN apiError
    ELSE exception

\* ErrorUtils.fromException
fromException(exception) ==
    LET apiError == tryConvertToApiError(exception) IN
    IF apiError # NullError
    THEN apiError
    ELSE LET clientError == tryConvertToClientError(exception) IN
         IF clientError # NullError
         THEN clientError
         ELSE createApiError(exception, "", "")

\* ------------------------------------------------------------------------
\* WebApi
\* ------------------------------------------------------------------------

\* ApiError.toClientError: the error returned to the caller, with status 500
toClientError(apiError) ==
    Thrown("ClientError", 500, apiError.code, apiError.message, "", "",
           ErrorToString(apiError.message))

\* ErrorHandler.handleError: the client error of an exception
handleError(exception) ==
    LET handledError == fromException(exception) IN
    IF handledError.type = "ClientError"
    THEN handledError
    ELSE toClientError(handledError)

\* ClientError.toResponseFormat
toResponseFormat(clientError) ==
    [code |-> clientError.code, message |-> clientError.message]

\* ResponseWriter.writeInvalidTokenResponse
writeInvalidTokenResponse(request) == [request EXCEPT !.status = 401, !.pc = "done"]

\* WebApi.unhandledExceptionHandler
unhandledExceptionHandler(exception, request) ==
    LET clientError == handleError(exception) IN
    [request EXCEPT !.status = clientError.statusCode,
                    !.body = toResponseFormat(clientError),
                    !.pc = "done"]

\* WebApi.authorizationHandler up to its await of the middleware
AuthorizationHandler(r) ==
    /\ req[r].pc = "express"
    /\ Stack[req[r].layer] = "authorizationHandler"
    /\ req' = [req EXCEPT ![r] =
            [@ EXCEPT !.pc = "mwStart", !.token = readAccessToken(req[r].header)]]
    /\ UNCHANGED <<cacheVars, headerVars, lookupVars, hostVars>>

\* An authorizationHandler that answers a refused token with a server error
authorizationCompletedServerError(request) ==
    IF request.success
    THEN next([request EXCEPT !.locals = request.claims, !.authorized = TRUE,
                              !.nextCalls = @ + 1])
    ELSE [request EXCEPT !.status = 500, !.pc = "done"]

\* WebApi.authorizationHandler once the middleware has returned
authorizationCompleted(request) ==
    IF request.success
    THEN next([request EXCEPT !.locals = request.claims, !.authorized = TRUE,
                              !.nextCalls = @ + 1])
    ELSE writeInvalidTokenResponse(request)

AuthorizationCompleted(r) ==
    /\ req[r].pc = "mwReturned"
    /\ req' = [req EXCEPT ![r] = authorizationCompleted(@)]
    /\ UNCHANGED <<cacheVars, headerVars, lookupVars, hostVars>>

\* A catcher that calls next() after the exception has been handled
catcherCallsNext(request) ==
    next([unhandledExceptionHandler(request.exception, request)
            EXCEPT !.nextCalls = @ + 1])

\* A catcher whose catch swallows the rejection and writes nothing
catcherSwallows(request) == [request EXCEPT !.pc = "done"]

\* HttpConfiguration.initializeApi: the catch of catcher, which runs when
\* the promise of the handler is rejected
catcher(request) == unhandledExceptionHandler(request.exception, request)

Catcher(r) ==
    /\ req[r].pc = "mwThrew"
    /\ req' = [req EXCEPT ![r] = catcher(@)]
    /\ UNCHANGED <<cacheVars, headerVars, lookupVars, hostVars>>

\* The business handlers: getUserClaims, getCompanyList, getCompanyTransactions
Routes(r) ==
    /\ req[r].pc = "express"
    /\ Stack[req[r].layer] = "routes"
    /\ req' = [req EXCEPT ![r] = [@ EXCEPT !.handled = TRUE, !.status = 200, !.pc = "done"]]
    /\ UNCHANGED <<cacheVars, headerVars, lookupVars, hostVars>>

\* ------------------------------------------------------------------------
\* ClaimsHandler: the lookupClaims promise chain
\* ------------------------------------------------------------------------

\* The calls of lookupClaims, one ClaimsHandler per API request
Lookups == {"l1", "l2"}

\* The module level metadata before and after the discovery document is read
MetadataNull == [issuer |-> "null"]
MetadataDocument == [issuer |-> "authority"]

\* The discovery document that the authorization server gives once its
\* configuration has changed
MetadataDocumentChanged == [issuer |-> "authority, changed"]

\* Settled promises
Resolve(value) == [state |-> "resolved", value |-> value]
Reject(error) == [state |-> "rejected", value |-> error]

\* Responses of the authorization server to a request: the JSON data of a
\* 2xx response, or the error of a failed request
Failure == [ok |-> FALSE, data |-> [active |-> FALSE], error |-> [kind |-> "request_failed"]]
Success(data) == [ok |-> TRUE, data |-> data, error |-> [kind |-> "none"]]
IntrospectionResponses ==
    {Failure, Success([active |-> FALSE]), Success([active |-> TRUE])}

\* The responses of the discovery endpoint
MetadataResponses ==
    {Failure, Success(MetadataDocument), Success(MetadataDocumentChanged)}

\* ErrorHandler.getTokenExpiredError
getTokenExpiredError == [kind |-> "token_expired"]

\* ErrorHandler.fromIntrospectionError: an error that is already the token
\* expired error is returned as it is, any other becomes an introspection error
fromIntrospectionError(e) ==
    IF e.kind = "token_expired" THEN e ELSE [kind |-> "introspection_error"]

\* ErrorHandler.fromMetadataError and ErrorHandler.fromUserInfoError
fromMetadataError(e) == [kind |-> "metadata_error"]
fromUserInfoError(e) == [kind |-> "userinfo_error"]

\* A then callback that does not look at the active field
readTokenDataThenUnchecked(data) == Resolve([kind |-> "tokenData"])

\* _readTokenData: the then callback on the introspection response
readTokenDataThen(data) ==
    IF ~data.active
    THEN Reject(getTokenExpiredError)
    ELSE Resolve([kind |-> "tokenData"])

\* A _readTokenData whose chain goes on whatever the introspection request gave
readTokenDataAlwaysResolved(response) == Resolve([kind |-> "tokenData"])

\* _readTokenData: the promise it returns, RequestPromise.then(...).catch(...)
readTokenData(response) ==
    LET requested == IF response.ok THEN Resolve(response.data) ELSE Reject(response.error)
        afterThen == IF requested.state = "resolved"
                     THEN readTokenDataThen(requested.value)
                     ELSE requested
    IN IF afterThen.state = "rejected"
       THEN Reject(fromIntrospectionError(afterThen.value))
       ELSE afterThen

\* A _readCentralUserData without the trailing catch that goes on with the
\* token data when the user info request fails
readCentralUserDataSwallowed(tokenData, response) ==
    Resolve([kind |-> IF response.ok THEN "tokenDataWithUserInfo" ELSE "tokenData"])

\* _readCentralUserData: the promise it returns
readCentralUserData(tokenData, response) ==
    IF response.ok
    THEN Resolve([kind |-> "tokenDataWithUserInfo"])
    ELSE Reject(fromUserInfoError(response.error))

\* _readProductClaims
readProductClaims(userData) == Resolve(userData)

\* A lookup that has not begun
NoLookup == [
    pc |-> "none", outcome |-> Resolve([kind |-> "none"]),
    metadataGets |-> 0, introspection |-> "none", userInfoCalls |-> 0,
    userInfo |-> "none", metadataFetched |-> FALSE]

\* lookupClaims calls _getMetadata: with metadata already read the chain
\* goes on to _readTokenData, which posts to the introspection endpoint;
\* otherwise the discovery document is requested
LookupClaims(l) ==
    /\ lookups[l].pc = "none"
    /\ lookups' = [lookups EXCEPT ![l] =
            IF metadata # MetadataNull
            THEN [@ EXCEPT !.pc = "readTokenData"]
            ELSE [@ EXCEPT !.pc = "getMetadata", !.metadataGets = @ + 1]]
    /\ UNCHANGED <<metadata, cacheVars, headerVars, apiVars, hostVars>>

\* _getMetadata: the discovery request completes
GetMetadataCompleted(l, response) ==
    /\ lookups[l].pc = "getMetadata"
    /\ IF response.ok
       THEN /\ metadata' = response.data
            /\ lookups' = [lookups EXCEPT ![l] = [@ EXCEPT
                    !.pc = "readTokenData", !.metadataFetched = TRUE]]
       ELSE /\ lookups' = [lookups EXCEPT ![l] = [@ EXCEPT
                    !.pc = "settled",
                    !.outcome = Reject(fromMetadataError(response.error))]]
            /\ UNCHANGED metadata
    /\ UNCHANGED <<cacheVars, headerVars, apiVars, hostVars>>

\* _readTokenData: the introspection request completes; when it resolves
\* _readCentralUserData requests the user info
ReadTokenDataCompleted(l, response) ==
    LET promise == readTokenData(response) IN
    /\ lookups[l].pc = "readTokenData"
    /\ lookups' = [lookups EXCEPT ![l] =
            [(IF promise.state = "resolved"
              THEN [@ EXCEPT !.pc = "readCentralUserData", !.userInfoCalls = @ + 1]
              ELSE [@ EXCEPT !.pc = "settled", !.outcome = promise])
             EXCEPT !.introspection =
                    IF ~response.ok THEN "failed"
                    ELSE IF response.data.active THEN "active" ELSE "inactive"]]
    /\ UNCHANGED <<metadata, cacheVars, headerVars, apiVars, hostVars>>

\* _readCentralUserData: the user info request completes; when it resolves
\* _readProductClaims resolves the chain
ReadCentralUserDataCompleted(l, response) ==
    LET promise == readCentralUserData([kind |-> "tokenData"], response) IN
    /\ lookups[l].pc = "readCentralUserData"
    /\ lookups' = [lookups EXCEPT ![l] = [@ EXCEPT
            !.pc = "settled",
            !.userInfo = IF response.ok THEN "ok" ELSE "failed",
            !.outcome = IF promise.state = "resolved"
                        THEN readProductClaims(promise.value)
                        ELSE promise]]
    /\ UNCHANGED <<metadata, cacheVars, headerVars, apiVars, hostVars>>

\* ------------------------------------------------------------------------
\* ClaimsCache: what it logs and what it is called with
\* ------------------------------------------------------------------------

\* The most messages that are followed in the log
MaxLogLen == 4

\* The access tokens presented to the API
RawTokens == {<<"tA">>, <<"tB">>, <<"tC">>}

\* A message of the development logger: its text with the number and the
\* hash that are formatted into it
Message(text, seconds, hash) == [text |-> text, seconds |-> seconds, hash |-> hash]

\* The 'expired' event handler of the constructor
expiredMessage(key) ==
    Message("Expired token has been removed from the cache", 0, key)

\* A message that names an access token instead of its hash
newTokenMessageRaw(accessTokenHash) ==
    Message("New token will be added to claims cache", 0, "tA")

\* getClaimsForToken: the two debug messages
newTokenMessage(accessTokenHash) ==
    Message("New token will be added to claims cache", 0, accessTokenHash)

foundTokenMessage(accessTokenHash) ==
    Message("Found existing token in claims cache", 0, accessTokenHash)

\* addClaimsForToken: the two debug messages
willExpireMessage(seconds, accessTokenHash) ==
    Message("Token to be cached will expire in", seconds, accessTokenHash)

addingMessage(seconds, accessTokenHash) ==
    Message("Adding token to claims cache for", seconds, accessTokenHash)

\* What a call of getClaimsForToken logs: the expired event of an entry
\* that the get deletes, then one of the two messages
getClaimsForTokenLog(c, d, nowT) ==
    (IF c[d] # NoEntry /\ IsExpired(c[d], nowT) THEN <<expiredMessage(d)>> ELSE <<>>)
    \o (IF CacheGet(c, d, nowT) = Undefined
        THEN <<newTokenMessage(d)>>
        ELSE <<foundTokenMessage(d)>>)

\* What a call of addClaimsForToken logs
addClaimsForTokenLog(d, claims, nowT, maxTtl) ==
    IF secondsToExpiry(claims, nowT) > 0
    THEN <<willExpireMessage(secondsToExpiry(claims, nowT), d),
           addingMessage(secondsToCache(claims, nowT, maxTtl), d)>>
    ELSE <<>>

\* What the sweep logs: the expired event of every entry it deletes
RECURSIVE checkDataLog(_, _, _)
checkDataLog(c, keys, nowT) ==
    IF keys = {} THEN <<>>
    ELSE LET d == CHOOSE k \in keys : TRUE IN
         (IF c[d] # NoEntry /\ IsExpired(c[d], nowT) THEN <<expiredMessage(d)>> ELSE <<>>)
         \o checkDataLog(c, keys \ {d}, nowT)

\* The claims caching authorizer looks up the claims of a validated token
LookupClaimsOf(token) ==
    /\ Len(traceLog) < MaxLogLen
    /\ getClaimsForToken(sha256(token))
    /\ traceLog' = traceLog \o getClaimsForTokenLog(cache, sha256(token), now)
    /\ presented' = token
    /\ UNCHANGED <<timeToLiveMinutes, now, advances, putLog, skipped>>
    /\ UNCHANGED <<headerVars, apiVars, lookupVars, startup, root>>

\* The claims caching authorizer stores the claims assembled for a token
StoreClaimsOf(token, u) ==
    /\ Len(traceLog) < MaxLogLen
    /\ addClaimsForToken(sha256(token), ApiClaims(sha256(token), u))
    /\ traceLog' = traceLog \o
            addClaimsForTokenLog(sha256(token), ApiClaims(sha256(token), u), now, stdTTL)
    /\ presented' = token
    /\ UNCHANGED <<timeToLiveMinutes, now, advances>>
    /\ UNCHANGED <<headerVars, apiVars, lookupVars, startup, root>>

\* The periodic sweep with its expired events
CheckDataLogged ==
    /\ Len(traceLog) < MaxLogLen
    /\ checkData
    /\ traceLog' = traceLog \o checkDataLog(cache, Digests, now)
    /\ UNCHANGED <<timeToLiveMinutes, now, advances, ret, putLog, skipped>>
    /\ UNCHANGED <<headerVars, apiVars, lookupVars, startup, root, presented>>

\* ------------------------------------------------------------------------
\* The application entry point and the HTTP server configuration
\* ------------------------------------------------------------------------

\* What fs.readFile finds for api.config.json
ConfigurationFiles == {"missing", "invalid_json", "valid"}

\* The process before the entry point runs
NotStarted == [
    pc |-> "none", mounted |-> <<>>, metadataLoaded |-> FALSE,
    listening |-> FALSE, startupError |-> "none"]

\* loggerFactory.logStartupError, called in the catch of the entry point
logStartupError(app, e) == [app EXCEPT !.pc = "failed", !.startupError = e]

\* initializeApi up to its await: the handlers of /api/* are mounted and
\* the metadata load is begun
initializeApi(app) == [app EXCEPT !.mounted = Stack, !.pc = "configure"]

\* startServer: the certificate file is read and the server listens
startServer(app, certificateRead) ==
    IF certificateRead
    THEN [app EXCEPT !.listening = TRUE, !.pc = "started"]
    ELSE logStartupError(app, "certificate")

\* An entry point that starts the server without awaiting configure()
configureCompletedUnawaited(app, loaded, certificateRead) ==
    startServer([app EXCEPT !.metadataLoaded = loaded], certificateRead)

\* The entry point after await httpServer.configure(): when the metadata
\* load succeeded the server is started, otherwise the catch is entered
configureCompleted(app, loaded, certificateRead) ==
    IF loaded
    THEN startServer([app EXCEPT !.metadataLoaded = TRUE], certificateRead)
    ELSE logStartupError(app, "metadata_load")

\* The entry point runs up to its await of fs.readFile
AppMain ==
    /\ startup.pc = "none"
    /\ startup' = [startup EXCEPT !.pc = "readFile"]
    /\ UNCHANGED <<cacheVars, headerVars, apiVars, lookupVars, root, traceLog, presented>>

\* The configuration is read and parsed, and configure() runs up to the
\* await of the metadata load
ReadFileCompleted(file) ==
    /\ startup.pc = "readFile"
    /\ startup' = IF file = "missing" THEN logStartupError(startup, "read_file")
                  ELSE IF file = "invalid_json" THEN logStartupError(startup, "json_parse")
                  ELSE initializeApi(startup)
    /\ UNCHANGED <<cacheVars, headerVars, apiVars, lookupVars, root, traceLog, presented>>

\* The metadata load settles, and with it configure()
ConfigureCompleted(loaded, certificateRead) ==
    /\ startup.pc = "configure"
    /\ startup' = configureCompleted(startup, loaded, certificateRead)
    /\ UNCHANGED <<cacheVars, headerVars, apiVars, lookupVars, root, traceLog, presented>>

\* The listening server receives a request
Serve(r, h) ==
    /\ startup.listening
    /\ Receive(r, h)

\* ------------------------------------------------------------------------
\* BaseCompositionRoot
\* ------------------------------------------------------------------------

\* The most calls of addUnsecuredPath that are made
MaxUnsecuredPaths == 1

\* The values of strategy and of tokenValidationStrategy in the configuration
\* file, among them values that the code does not name
Strategies == {"claims-caching", "standard", "unknown"}
TokenValidationStrategies == {"introspection", "jwt", "unknown"}

\* The paths that are made unsecured, and the paths of requests
UnsecuredPaths == {"/api/health"}
Paths == {ApiPath, "/api/health"}

\* No OAuth configuration has been given
NoConfiguration == [strategy |-> "none", tokenValidationStrategy |-> "none"]

\* The composition root after its constructor
NewRoot == [
    unsecuredPaths |-> <<>>, oauthConfiguration |-> NoConfiguration,
    authorizer |-> "none", authorizerPaths |-> <<>>, bindings |-> {},
    registered |-> FALSE, middleware |-> <<>>]

\* The middleware of the API base path in the order of configureMiddleware
\* and configureExceptionHandler, with the controllers between them
BaseStack == <<"logRequest", "authorizeRequestAndGetClaims", "processHeaders",
               "controller", "handleException">>

\* addUnsecuredPath
addUnsecuredPath(builder, unsecuredPath) ==
    [builder EXCEPT !.unsecuredPaths = Append(@, unsecuredPath)]

\* useOAuth
useOAuth(builder, oauthConfiguration) ==
    [builder EXCEPT !.oauthConfiguration = oauthConfiguration]

\* _registerBaseDependencies: container.bind of each type to its value
registerBaseDependencies(builder) ==
    [builder EXCEPT !.bindings = @ \cup {
        <<"UnhandledExceptionHandler", "exceptionHandler">>,
        <<"LoggerFactory", "loggerFactory">>,
        <<"LoggingConfiguration", "loggingConfiguration">>,
        <<"HttpProxy", "httpProxy">>,
        <<"LogEntry", "{}">>}]

\* A selection that creates the caching authorizer for every strategy
createAuthorizerAlwaysCaching(strategy) == "ClaimsCachingAuthorizer"

\* _registerOAuthDependencies: the authorizer created for a strategy
createAuthorizer(strategy) ==
    IF strategy = "claims-caching"
    THEN "ClaimsCachingAuthorizer"
    ELSE "StandardAuthorizer"

\* _registerOAuthDependencies: the token validator bindings for a strategy
bindTokenValidator(tokenValidationStrategy) ==
    IF tokenValidationStrategy = "introspection"
    THEN {<<"TokenValidator", "IntrospectionValidator">>}
    ELSE {<<"JwksClient", "jwksClient">>, <<"TokenValidator", "JwtValidator">>}

\* A registration that does not give the unsecured paths to the authorizer
registerOAuthDependenciesWithoutPaths(builder) ==
    [builder EXCEPT
        !.authorizer = createAuthorizer(builder.oauthConfiguration.strategy),
        !.bindings = @ \cup {
            <<"OAuthConfiguration", "oauthConfiguration">>,
            <<"OAuthAuthenticator", "OAuthAuthenticator">>}
            \cup bindTokenValidator(builder.oauthConfiguration.tokenValidationStrategy)]

\* _registerOAuthDependencies
registerOAuthDependencies(builder) ==
    [builder EXCEPT
        !.authorizer = createAuthorizer(builder.oauthConfiguration.strategy),
        !.authorizerPaths = builder.unsecuredPaths,
        !.bindings = @ \cup {
            <<"OAuthConfiguration", "oauthConfiguration">>,
            <<"OAuthAuthenticator", "OAuthAuthenticator">>}
            \cup bindTokenValidator(builder.oauthConfiguration.tokenValidationStrategy)]

\* A registration that creates and binds the claims cache for every strategy
registerClaimsDependenciesAlwaysCache(builder) ==
    [builder EXCEPT !.bindings = @
        \cup {<<"ClaimsCache", "claimsCache">>}
        \cup {<<"ClaimsProvider", "claimsProvider">>,
               <<"BaseClaims", "{}">>, <<"UserInfoClaims", "{}">>,
               <<"CustomClaims", "{}">>}]

\* _registerClaimsDependencies
registerClaimsDependencies(builder) ==
    [builder EXCEPT !.bindings = @
        \cup (IF builder.oauthConfiguration.strategy = "claims-caching"
              THEN {<<"ClaimsCache", "claimsCache">>}
              ELSE {})
        \cup {<<"ClaimsProvider", "claimsProvider">>,
               <<"BaseClaims", "{}">>, <<"UserInfoClaims", "{}">>,
               <<"CustomClaims", "{}">>}]

\* register
register(builder) ==
    [registerClaimsDependencies(registerOAuthDependencies(registerBaseDependencies(builder)))
        EXCEPT !.registered = TRUE]

\* The implementations bound to a type in the container
Bound(builder, type) == {b[2] : b \in {c \in builder.bindings : c[1] = type}}

\* The host adds an unsecured path to the builder
AddUnsecuredPath(unsecuredPath) ==
    /\ ~root.registered
    /\ Len(root.unsecuredPaths) < MaxUnsecuredPaths
    /\ root' = addUnsecuredPath(root, unsecuredPath)
    /\ UNCHANGED <<cacheVars, headerVars, apiVars, lookupVars, startup, traceLog, presented>>

\* The host gives the OAuth configuration to the builder
UseOAuth(oauthConfiguration) ==
    /\ ~root.registered
    /\ root.oauthConfiguration = NoConfiguration
    /\ root' = useOAuth(root, oauthConfiguration)
    /\ UNCHANGED <<cacheVars, headerVars, apiVars, lookupVars, startup, traceLog, presented>>

\* The host ends the builder calls with register()
Register ==
    /\ ~root.registered
    /\ root.oauthConfiguration # NoConfiguration
    /\ root' = register(root)
    /\ UNCHANGED <<cacheVars, headerVars, apiVars, lookupVars, startup, traceLog, presented>>

\* configureMiddleware and configureExceptionHandler
ConfigureMiddleware ==
    /\ root.registered
    /\ root.middleware = <<>>
    /\ root' = [root EXCEPT !.middleware = BaseStack]
    /\ UNCHANGED <<cacheVars, headerVars, apiVars, lookupVars, startup, traceLog, presented>>

\* ------------------------------------------------------------------------
\* BaseAuthorizer and its two variants
\* ------------------------------------------------------------------------

\* The claims of a request before the authorizer has set any: the dummy
\* values that _registerClaimsDependencies binds
EmptyClaims == [expiry |-> 0, userInfo |-> "{}"]

\* The claims that token validation reads from the token
BaselineClaims(d) == [expiry |-> TokenExpiry(d), userInfo |-> "none"]

\* The elements of a sequence
Range(seq) == {seq[i] : i \in 1..Len(seq)}

\* The headers sent to the API, with a token that validation refuses
PathHeaders == {
    NullString,
    <<"Bearer", Space, "tA">>,
    <<"Bearer", Space, "tX">>,
    <<"Basic", Space, "tA">>}

\* A request for a path under the API base path arrives
ReceivePath(r, h, path) ==
    /\ root.middleware = BaseStack
    /\ req[r].pc = "none"
    /\ r = "r2" => req["r1"].pc # "none"
    /\ req' = [req EXCEPT ![r] = [NoRequest EXCEPT
                    !.pc = "express", !.layer = 1, !.header = h, !.path = path,
                    !.claims = EmptyClaims]]
    /\ UNCHANGED <<cacheVars, headerVars, lookupVars, hostVars>>

\* LoggerMiddleware.logRequest
LogRequest(r) ==
    /\ req[r].pc = "express"
    /\ BaseStack[req[r].layer] = "logRequest"
    /\ req' = [req EXCEPT ![r] = next(@)]
    /\ UNCHANGED <<cacheVars, headerVars, lookupVars, hostVars>>

\* authorizeRequestAndGetClaims: a request for an unsecured path moves on
\* with the claims it has; for any other the access token is read
AuthorizeRequestAndGetClaims(r) ==
    /\ req[r].pc = "express"
    /\ BaseStack[req[r].layer] = "authorizeRequestAndGetClaims"
    /\ req' = [req EXCEPT ![r] =
            IF req[r].path \in Range(root.authorizerPaths)
            THEN next([@ EXCEPT !.locals = req[r].claims, !.nextCalls = @ + 1])
            ELSE [@ EXCEPT !.pc = "mwStart", !.token = readAccessToken(req[r].header)]]
    /\ UNCHANGED <<cacheVars, headerVars, lookupVars, hostVars>>

\* StandardAuthorizer: the claims of a valid token are those read from it
StandardValidate(r, upstreamFails) ==
    /\ root.authorizer = "StandardAuthorizer"
    /\ req[r].pc = "mwValidate"
    /\ req' = [req EXCEPT ![r] =
            IF upstreamFails
            THEN [@ EXCEPT !.pc = "mwThrew", !.exception = UpstreamError]
            ELSE IF IsValidToken(req[r].token, now)
            THEN [@ EXCEPT !.pc = "mwReturned", !.success = TRUE,
                           !.claims = BaselineClaims(sha256(req[r].token))]
            ELSE [@ EXCEPT !.pc = "mwReturned", !.success = FALSE]]
    /\ UNCHANGED <<cacheVars, headerVars, lookupVars, hostVars>>

\* ClaimsCachingAuthorizer: a valid token goes on to the claims cache
CachingValidate(r, upstreamFails) ==
    /\ root.authorizer = "ClaimsCachingAuthorizer"
    /\ MwValidate(r, upstreamFails)

\* CustomHeaderMiddleware.processHeaders
ProcessHeaders(r) ==
    /\ req[r].pc = "express"
    /\ BaseStack[req[r].layer] = "processHeaders"
    /\ req' = [req EXCEPT ![r] = next(@)]
    /\ UNCHANGED <<cacheVars, headerVars, lookupVars, hostVars>>

\* The controller of the route
Controller(r) ==
    /\ req[r].pc = "express"
    /\ BaseStack[req[r].layer] = "controller"
    /\ req' = [req EXCEPT ![r] = [@ EXCEPT !.handled = TRUE, !.status = 200, !.pc = "done"]]
    /\ UNCHANGED <<cacheVars, headerVars, lookupVars, hostVars>>

\* ------------------------------------------------------------------------
\* Specifications
\* ------------------------------------------------------------------------

\* The claims cache after construction, at process start
InitCache ==
    /\ timeToLiveMinutes \in TtlMinutes
    /\ now = StartSeconds * TicksPerSecond
    /\ advances = 0
    /\ cache = [d \in Digests |-> NoEntry]
    /\ ret = NoCall
    /\ putLog = [d \in Digests |-> NoPut]
    /\ skipped = {}

\* No header is being read
InitHeaderIdle ==
    /\ authorizationHeader = NullString
    /\ accessToken = NullString

\* No request has arrived
InitApi == req = [r \in Requests |-> NoRequest]

\* No claims lookup has begun
InitLookup ==
    /\ metadata = MetadataNull
    /\ lookups = [l \in Lookups |-> NoLookup]

\* The entry point has not run
InitHost ==
    /\ startup = NotStarted
    /\ root = NewRoot
    /\ traceLog = <<>>
    /\ presented = NullString

\* The claims cache on its own, called with any hash and claims at any time
Init ==
    /\ InitCache
    /\ InitHeaderIdle
    /\ InitApi
    /\ InitLookup
    /\ InitHost

Next ==
    \/ \E d \in Digests : GetClaimsForToken(d)
    \/ \E d \in Digests, u \in UserInfos : AddClaimsForToken(d, u)
    \/ CheckData
    \/ \E step \in AdvanceSteps : Advance(step)

Spec == Init /\ [][Next]_vars

\* The same with a positive maximum time to live configured
InitPositiveTtl == Init /\ timeToLiveMinutes > 0

SpecPositiveTtl == InitPositiveTtl /\ [][Next]_vars

\* The longest authorization header that is enumerated, in symbols
MaxHeaderLen == 4

RECURSIVE Strings(_)
Strings(n) ==
    IF n = 0 THEN {<<>>}
    ELSE Strings(n - 1) \cup {Append(str, sym) : str \in Strings(n - 1), sym \in Symbols}

\* _readAccessToken applied to every header of up to MaxHeaderLen symbols
InitHeader ==
    /\ authorizationHeader \in Strings(MaxHeaderLen) \cup {NullString}
    /\ accessToken = NotRead
    /\ InitCache /\ timeToLiveMinutes = 1
    /\ InitApi
    /\ InitLookup
    /\ InitHost

SpecHeader == InitHeader /\ [][ReadAccessToken]_vars

\* The API: requests pass through Express, the authorization handler and
\* the claims cache while time passes
NextApi ==
    \/ \E r \in Requests, h \in Headers : Receive(r, h)
    \/ \E r \in Requests : Cors(r)
    \/ \E r \in Requests : AuthorizationHandler(r)
    \/ \E r \in Requests : MwStart(r)
    \/ \E r \in Requests, upstreamFails \in BOOLEAN : MwValidate(r, upstreamFails)
    \/ \E r \in Requests : MwLookup(r)
    \/ \E r \in Requests, u \in UserInfos, upstreamFails \in BOOLEAN :
            MwAssemble(r, u, upstreamFails)
    \/ \E r \in Requests : MwStore(r)
    \/ \E r \in Requests : AuthorizationCompleted(r)
    \/ \E r \in Requests : Catcher(r)
    \/ \E r \in Requests : Routes(r)
    \/ CheckData
    \/ \E step \in AdvanceSteps : Advance(step)

SpecApi == Init /\ [][NextApi]_vars

\* A maximum time to live of one minute is configured
InitLookups == Init /\ timeToLiveMinutes = 1

\* The API with authorizeRequestAndSetClaims taken as a whole, throwing
\* any kind of exception
NextException ==
    \/ \E r \in Requests, h \in Headers : Receive(r, h)
    \/ \E r \in Requests : Cors(r)
    \/ \E r \in Requests : AuthorizationHandler(r)
    \/ \E r \in Requests, success \in BOOLEAN : AuthorizeRequestAndSetClaims(r, success)
    \/ \E r \in Requests, e \in Exceptions : AuthorizeRequestAndSetClaimsThrows(r, e)
    \/ \E r \in Requests : AuthorizationCompleted(r)
    \/ \E r \in Requests : Catcher(r)
    \/ \E r \in Requests : Routes(r)

SpecException == InitLookups /\ [][NextException]_vars

\* The process from its entry point on: it serves requests once it listens
NextStartup ==
    \/ AppMain
    \/ \E file \in ConfigurationFiles : ReadFileCompleted(file)
    \/ \E loaded, certificateRead \in BOOLEAN : ConfigureCompleted(loaded, certificateRead)
    \/ \E r \in Requests, h \in Headers : Serve(r, h)
    \/ \E r \in Requests : Cors(r)
    \/ \E r \in Requests : AuthorizationHandler(r)
    \/ \E r \in Requests, success \in BOOLEAN : AuthorizeRequestAndSetClaims(r, success)
    \/ \E r \in Requests, e \in Exceptions : AuthorizeRequestAndSetClaimsThrows(r, e)
    \/ \E r \in Requests : AuthorizationCompleted(r)
    \/ \E r \in Requests : Catcher(r)
    \/ \E r \in Requests : Routes(r)

SpecStartup == InitLookups /\ [][NextStartup]_vars

\* The API built by the composition root: the host configures and
\* registers, then requests pass through the authorizer that was created
NextComposition ==
    \/ \E unsecuredPath \in UnsecuredPaths : AddUnsecuredPath(unsecuredPath)
    \/ \E strategy \in Strategies, validation \in TokenValidationStrategies :
            UseOAuth([strategy |-> strategy, tokenValidationStrategy |-> validation])
    \/ Register
    \/ ConfigureMiddleware
    \/ \E r \in Requests, h \in PathHeaders, path \in Paths : ReceivePath(r, h, path)
    \/ \E r \in Requests : LogRequest(r)
    \/ \E r \in Requests : AuthorizeRequestAndGetClaims(r)
    \/ \E r \in Requests : MwStart(r)
    \/ \E r \in Requests, upstreamFails \in BOOLEAN : StandardValidate(r, upstreamFails)
    \/ \E r \in Requests, upstreamFails \in BOOLEAN : CachingValidate(r, upstreamFails)
    \/ \E r \in Requests : MwLookup(r)
    \/ \E r \in Requests, u \in UserInfos, upstreamFails \in BOOLEAN :
            MwAssemble(r, u, upstreamFails)
    \/ \E r \in Requests : MwStore(r)
    \/ \E r \in Requests : AuthorizationCompleted(r)
    \/ \E r \in Requests : Catcher(r)
    \/ \E r \in Requests : ProcessHeaders(r)
    \/ \E r \in Requests : Controller(r)

SpecComposition == InitLookups /\ [][NextComposition]_vars

\* The claims cache as the claims caching authorizer calls it, for access
\* tokens of which two have the same hash, with what it logs
NextDigest ==
    \/ \E token \in RawTokens : LookupClaimsOf(token)
    \/ \E token \in RawTokens, u \in UserInfos : StoreClaimsOf(token, u)
    \/ CheckDataLogged
    \/ \E step \in AdvanceSteps : Advance(step)

SpecDigest == InitLookups /\ [][NextDigest]_vars

\* The claims lookups of concurrent API requests
NextLookup ==
    \/ \E l \in Lookups : LookupClaims(l)
    \/ \E l \in Lookups, response \in MetadataResponses :
            GetMetadataCompleted(l, response)
    \/ \E l \in Lookups, response \in IntrospectionResponses :
            ReadTokenDataCompleted(l, response)
    \/ \E l \in Lookups, response \in {Failure, Success([email |-> "e"])} :
            ReadCentralUserDataCompleted(l, response)

SpecLookup == InitLookups /\ [][NextLookup]_vars

\* ------------------------------------------------------------------------
\* Properties of the claims lookup
\* ------------------------------------------------------------------------

\* C10: when the introspection endpoint answers with active=false, the
\* outcome of _readTokenData, and so of lookupClaims, is the token expired
\* error and not an introspection error.
C10_InactiveTokenIsTokenExpired ==
    \A l \in Lookups :
        lookups[l].introspection = "inactive" =>
            /\ lookups[l].pc = "settled"
            /\ lookups[l].outcome = Reject(getTokenExpiredError)
            /\ lookups[l].userInfoCalls = 0

\* C10 witness: a lookup was rejected after an active=false response
C10_Witness ==
    \E l \in Lookups :
        /\ lookups[l].introspection = "inactive"
        /\ lookups[l].outcome.state = "rejected"

\* C14: over all the lookupClaims calls of the process, in any interleaving,
\* at most one GET of the discovery document is issued and answered; every
\* other call uses the memoized metadata.
C14_MetadataFetchedAtMostOnce ==
    Cardinality({l \in Lookups : lookups[l].metadataFetched}) <= 1

\* The moves of one lookupClaims chain from step to step
ChainMoves == {
    <<"none", "getMetadata">>, <<"none", "readTokenData">>,
    <<"getMetadata", "readTokenData">>, <<"getMetadata", "settled">>,
    <<"readTokenData", "readCentralUserData">>, <<"readTokenData", "settled">>,
    <<"readCentralUserData", "settled">> }

\* C22: lookupClaims runs its steps in the order metadata, introspection,
\* user info, product claims, and a failure of any step stops the chain:
\* the introspection request is made only when the metadata is available,
\* the user info request only after introspection has reported the token
\* active, and after a failed metadata request or a failed or inactive
\* introspection no later request is made; the chain resolves with claims
\* only when every step succeeded.
C22_StepsInOrder ==
    /\ [](\A l \in Lookups :
            /\ lookups[l].pc \in {"readTokenData", "readCentralUserData"} =>
                    metadata # MetadataNull
            /\ lookups[l].introspection # "none" => metadata # MetadataNull
            /\ lookups[l].pc = "readCentralUserData" =>
                    lookups[l].introspection = "active"
            /\ lookups[l].userInfoCalls \in {0, 1}
            /\ lookups[l].userInfoCalls = 1 <=> lookups[l].introspection = "active"
            /\ lookups[l].userInfo # "none" => lookups[l].userInfoCalls = 1
            /\ lookups[l].introspection \in {"failed", "inactive"} =>
                    /\ lookups[l].pc = "settled"
                    /\ lookups[l].outcome.state = "rejected"
                    /\ lookups[l].userInfo = "none"
            /\ (/\ lookups[l].pc = "settled"
                /\ lookups[l].outcome = Reject([kind |-> "metadata_error"])) =>
                    /\ lookups[l].introspection = "none"
                    /\ lookups[l].userInfoCalls = 0
            /\ (lookups[l].pc = "settled" /\ lookups[l].outcome.state = "resolved") =>
                    /\ lookups[l].introspection = "active"
                    /\ lookups[l].userInfo = "ok"
                    /\ lookups[l].outcome.value = [kind |-> "tokenDataWithUserInfo"])
    /\ [][\A l \in Lookups :
            /\ lookups'[l].pc # lookups[l].pc =>
                    <<lookups[l].pc, lookups'[l].pc>> \in ChainMoves
            /\ lookups[l].pc = "settled" => lookups'[l] = lookups[l]
            /\ (lookups[l].pc = "none" /\ lookups'[l].pc = "readTokenData") =>
                    metadata # MetadataNull
            /\ (lookups[l].pc = "readTokenData" /\ lookups'[l].pc = "settled") =>
                    /\ lookups'[l].outcome.state = "rejected"
                    /\ lookups'[l].userInfoCalls = lookups[l].userInfoCalls
            /\ (lookups[l].pc = "getMetadata" /\ lookups'[l].pc = "settled") =>
                    lookups'[l].outcome = Reject([kind |-> "metadata_error"])]_vars

\* C22 witness: one chain ran through all its steps and resolved with the
\* claims, and another was stopped by a failed introspection before any
\* user info request
C22_Witness ==
    \E l, m \in Lookups :
        /\ lookups[l].pc = "settled" /\ lookups[l].outcome.state = "resolved"
        /\ lookups[l].metadataFetched /\ lookups[l].introspection = "active"
        /\ lookups[l].userInfoCalls = 1 /\ lookups[l].userInfo = "ok"
        /\ lookups[m].pc = "settled" /\ lookups[m].introspection = "failed"
        /\ lookups[m].userInfoCalls = 0

\* C23: a failed discovery request leaves the memoized metadata as it was,
\* unset, and fails only the lookup that made it, with a metadata error; a
\* lookup that begins while the metadata is unset requests the discovery
\* document again; and once a request has succeeded the memoized metadata
\* is never reset or replaced.
C23_FailedFetchRetriedThenKept ==
    /\ [](\A l \in Lookups :
            lookups[l].outcome = Reject([kind |-> "metadata_error"]) =>
                /\ lookups[l].pc = "settled"
                /\ ~lookups[l].metadataFetched
                /\ lookups[l].introspection = "none")
    /\ [][/\ \A l \in Lookups :
                /\ (lookups[l].pc = "getMetadata" /\ lookups'[l].pc = "settled") =>
                        /\ metadata' = metadata
                        /\ lookups'[l].outcome = Reject([kind |-> "metadata_error"])
                        /\ \A m \in Lookups \ {l} : lookups'[m] = lookups[m]
                /\ (/\ lookups[l].pc = "none" /\ lookups'[l].pc # "none"
                    /\ metadata = MetadataNull) =>
                        /\ lookups'[l].pc = "getMetadata"
                        /\ lookups'[l].metadataGets = lookups[l].metadataGets + 1
           /\ metadata # MetadataNull => metadata' = metadata]_vars

\* The errors that report a failed call to the authorization server
UpstreamErrorKinds == {"metadata_error", "introspection_error", "userinfo_error"}

\* C11: a lookup whose introspection request or user info request failed
\* (no response, or a response that is not 2xx) is rejected with the error
\* of that upstream call: never with the token expired error, and it never
\* resolves with claims.
C11_UpstreamFailureIsUpstreamError ==
    \A l \in Lookups :
        /\ lookups[l].introspection = "failed" =>
                /\ lookups[l].pc = "settled"
                /\ lookups[l].outcome = Reject([kind |-> "introspection_error"])
                /\ lookups[l].userInfoCalls = 0
        /\ lookups[l].userInfo = "failed" =>
                /\ lookups[l].pc = "settled"
                /\ lookups[l].outcome = Reject([kind |-> "userinfo_error"])
        /\ (lookups[l].introspection = "failed" \/ lookups[l].userInfo = "failed") =>
                /\ lookups[l].outcome.state = "rejected"
                /\ lookups[l].outcome.value.kind \in UpstreamErrorKinds
                /\ lookups[l].outcome.value # getTokenExpiredError

\* C11 witness: one lookup failed at the introspection request and another
\* at the user info request, after an active introspection response
C11_Witness ==
    \E l, m \in Lookups :
        /\ lookups[l].introspection = "failed"
        /\ lookups[l].outcome.state = "rejected"
        /\ lookups[m].introspection = "active"
        /\ lookups[m].userInfo = "failed"
        /\ lookups[m].outcome.state = "rejected"

\* ------------------------------------------------------------------------
\* Properties of _readAccessToken
\* ------------------------------------------------------------------------

\* The number of spaces in a string
RECURSIVE Spaces(_)
Spaces(str) ==
    IF str = <<>> THEN 0
    ELSE (IF Head(str) = Space THEN 1 ELSE 0) + Spaces(Tail(str))

\* A header that is present, holds exactly one space and so has exactly two
\* parts, the first of which is the literal Bearer
IsBearerHeader(header) ==
    /\ header # NullString
    /\ Spaces(header) = 1
    /\ Len(header) >= 2
    /\ header[1] = "Bearer"
    /\ header[2] = Space

\* C7: _readAccessToken returns the second part of the header if and only
\* if the header is present, has exactly two parts separated by a single
\* space and the first is exactly Bearer; for any other header it is null.
C7_BearerTokenExtraction ==
    accessToken # NotRead =>
        IF IsBearerHeader(authorizationHeader)
        THEN accessToken = SubSeq(authorizationHeader, 3, Len(authorizationHeader))
        ELSE accessToken = NullString

\* C7 witness: tokens were read from a Bearer header, and lower case
\* bearer, Basic, one part and three part headers were refused
C7_Witness ==
    /\ accessToken # NotRead
    /\ authorizationHeader = <<"Bearer", Space, "tA", "tB">>
    /\ accessToken = <<"tA", "tB">>

\* ------------------------------------------------------------------------
\* Properties of the authorization handler
\* ------------------------------------------------------------------------

\* A header from which no token is extracted: it is absent or malformed,
\* or nothing follows the space after Bearer
NoTokenHeader(header) == ~IsBearerHeader(header) \/ Len(header) = 2

\* C5: a request with a token whose claims an earlier request stored, made
\* within the time to live of the entry, gets the stored claims from
\* getClaimsForToken and does not invoke the claims assembly.
C5_CacheHitWithinTtl ==
    \A r \in Requests :
        req[r].withinTtl =>
            /\ req[r].claims = req[r].stored
            /\ req[r].claims # Null
            /\ ~req[r].assembled
            /\ req[r].pc \notin {"mwAssemble", "mwStore", "mwThrew"}

\* C5 witness: a request was served with the claims that another stored
C5_Witness ==
    \E r \in Requests :
        /\ req[r].withinTtl /\ req[r].handled
        /\ req[r].locals = req[r].stored
        /\ req[r].cacheCalls = 1

\* C6: a request whose authorization header is absent or malformed ends
\* with a 401 response, its business handler is not invoked and the claims
\* cache is not called for it.
C6_NoTokenIsRefusedWithoutCache ==
    \A r \in Requests :
        (req[r].pc # "none" /\ NoTokenHeader(req[r].header)) =>
            /\ req[r].cacheCalls = 0
            /\ req[r].nextCalls = 0
            /\ ~req[r].handled
            /\ req[r].status \in {NotWritten, 401}
            /\ req[r].pc = "done" => req[r].status = 401

\* C6 witness: a request with a Basic header was answered with 401
C6_Witness ==
    \E r \in Requests :
        /\ req[r].header = <<"Basic", Space, "tA">>
        /\ req[r].pc = "done" /\ req[r].status = 401

\* C8: a business handler runs only after the authorization handler has
\* completed successfully for the same request and attached the claims;
\* when authorization fails or throws, next() is not called and no business
\* handler runs.
C8_HandlerOnlyAfterAuthorization ==
    \A r \in Requests :
        /\ req[r].handled =>
                /\ req[r].authorized /\ req[r].success
                /\ req[r].locals # Null /\ req[r].locals = req[r].claims
        /\ (req[r].status = 401 \/ req[r].exception # NoException) =>
                /\ req[r].nextCalls = 0
                /\ ~req[r].handled

\* C8 witness: one request reached its business handler and another was
\* stopped by an exception
C8_Witness ==
    \E r1, r2 \in Requests :
        /\ req[r1].handled /\ req[r1].authorized /\ req[r1].nextCalls = 1
        /\ req[r2].pc = "done" /\ req[r2].exception # NoException

PastAuthorization(request) ==
    \/ request.pc = "done"
    \/ request.pc = "express" /\ request.layer > 2

\* The three outcomes of the authorization handler under the catcher:
\* next() was called, the invalid token response was written, the unhandled
\* exception handler wrote its error response
CalledNext(request) ==
    /\ request.nextCalls = 1 /\ request.success /\ request.authorized
    /\ request.exception = NoException
    /\ request.status = NotWritten \/ request.handled

WroteInvalidToken(request) ==
    /\ request.status = 401 /\ ~request.success
    /\ request.exception = NoException

WroteError(request) ==
    /\ request.exception # NoException
    /\ request.status = handleError(request.exception).statusCode
    /\ request.status # NotWritten
    /\ request.body = toResponseFormat(handleError(request.exception))

\* The number of outcomes that a request has had
Outcomes(request) ==
    Cardinality({o \in {"next", "invalidToken", "error"} :
        \/ o = "next" /\ request.nextCalls > 0
        \/ o = "invalidToken" /\ request.status # NotWritten /\ ~request.handled
                /\ request.exception = NoException
        \/ o = "error" /\ request.status # NotWritten /\ ~request.handled
                /\ request.exception # NoException})

\* C21: for every request passing through the authorization handler wrapped
\* by the catcher, exactly one of three outcomes occurs and it occurs exactly
\* once: next() is called, the 401 invalid token response is written, or the
\* unhandled exception handler writes an error response. No request gets both
\* a response of the authorization handler and a next() call, none is left
\* with neither, a written response is never written again and next() is not
\* called twice.
C21_ExactlyOneOutcome ==
    /\ [](\A r \in Requests :
            /\ req[r].nextCalls \in {0, 1}
            /\ IF PastAuthorization(req[r])
               THEN /\ Outcomes(req[r]) = 1
                    /\ \/ CalledNext(req[r])
                       \/ WroteInvalidToken(req[r]) /\ req[r].nextCalls = 0
                       \/ WroteError(req[r]) /\ req[r].nextCalls = 0
               ELSE /\ Outcomes(req[r]) = 0
                    /\ req[r].pc = "mwReturned" => ENABLED AuthorizationCompleted(r)
                    /\ req[r].pc = "mwThrew" => ENABLED Catcher(r))
    /\ [][\A r \in Requests :
            /\ req[r].status # NotWritten =>
                    /\ req'[r].status = req[r].status
                    /\ req'[r].body = req[r].body
            /\ req'[r].nextCalls # req[r].nextCalls =>
                    /\ req[r].pc = "mwReturned"
                    /\ req'[r].nextCalls = req[r].nextCalls + 1
                    /\ req'[r].status = NotWritten
            /\ (req[r].status = NotWritten /\ req'[r].status # NotWritten
                    /\ ~req'[r].handled) =>
                    /\ req[r].pc \in {"mwReturned", "mwThrew"}
                    /\ req'[r].pc = "done"
                    /\ req'[r].nextCalls = req[r].nextCalls]_vars

\* C21 witness: next() was called for one request, which reached its
\* business handler, and the exception of another was answered by the
\* unhandled exception handler
C21_Witness ==
    \E r1, r2 \in Requests :
        /\ req[r1].pc = "done" /\ CalledNext(req[r1]) /\ req[r1].handled
        /\ req[r2].pc = "done" /\ WroteError(req[r2]) /\ req[r2].nextCalls = 0
        /\ req[r2].exception.type = "TypeError"

\* ------------------------------------------------------------------------
\* Properties of the composition root and its authorizers
\* ------------------------------------------------------------------------

\* C15: after registration with a strategy other than claims-caching no
\* ClaimsCache is bound in the container, no request looks up, stores or
\* assembles claims (the cache is never called), and the claims of every
\* request that passed token validation are exactly the baseline claims of
\* its token.
C15_StandardAuthorizerUsesNoCache ==
    (root.registered /\ root.oauthConfiguration.strategy # "claims-caching") =>
        /\ root.authorizer = "StandardAuthorizer"
        /\ Bound(root, "ClaimsCache") = {}
        /\ cache = [d \in Digests |-> NoEntry]
        /\ ret = NoCall /\ skipped = {}
        /\ putLog = [d \in Digests |-> NoPut]
        /\ \A r \in Requests :
                /\ req[r].cacheCalls = 0 /\ ~req[r].assembled
                /\ req[r].pc \notin {"mwLookup", "mwAssemble", "mwStore"}
                /\ req[r].success =>
                        req[r].claims = BaselineClaims(sha256(req[r].token))
                /\ req[r].authorized =>
                        req[r].locals = BaselineClaims(sha256(req[r].token))

\* C15 witness: under the standard strategy a request with a valid token
\* reached its controller with the baseline claims
C15_Witness ==
    /\ root.registered /\ root.oauthConfiguration.strategy = "standard"
    /\ \E r \in Requests :
            /\ req[r].handled /\ req[r].authorized
            /\ req[r].token = <<"tA">>
            /\ req[r].locals = BaselineClaims("hA")

\* C16: a request for a path given to addUnsecuredPath before register()
\* never enters token validation, the claims cache or claims assembly and
\* is never refused: it goes on to its controller with the empty claims,
\* whatever its authorization header and whichever authorizer was created.
C16_UnsecuredPathBypasses ==
    \A r \in Requests :
        (req[r].pc # "none" /\ req[r].path \in Range(root.unsecuredPaths)) =>
            /\ req[r].pc \in {"express", "done"}
            /\ req[r].token = NullString
            /\ req[r].cacheCalls = 0 /\ ~req[r].assembled
            /\ req[r].exception = NoException
            /\ req[r].claims = EmptyClaims
            /\ req[r].status \in {NotWritten, 200}
            /\ req[r].layer > 2 => req[r].locals = EmptyClaims /\ req[r].nextCalls = 1
            /\ req[r].pc = "done" => req[r].handled /\ req[r].status = 200

\* C16 witness: under the claims caching authorizer a request for the
\* unsecured path with a token that validation refuses, and another with no
\* header, reached the controller
C16_Witness ==
    /\ root.authorizer = "ClaimsCachingAuthorizer"
    /\ \E r1, r2 \in Requests :
            /\ req[r1].path \in Range(root.unsecuredPaths)
            /\ req[r1].header = <<"Bearer", Space, "tX">>
            /\ req[r1].handled /\ req[r1].locals = EmptyClaims
            /\ req[r2].path \in Range(root.unsecuredPaths)
            /\ req[r2].header = NullString
            /\ req[r2].handled

\* The authorizer and the bindings that register() makes for a configuration
SelectedBy(builder) ==
    /\ builder.authorizer =
            (IF builder.oauthConfiguration.strategy = "claims-caching"
             THEN "ClaimsCachingAuthorizer" ELSE "StandardAuthorizer")
    /\ Bound(builder, "TokenValidator") =
            {IF builder.oauthConfiguration.tokenValidationStrategy = "introspection"
             THEN "IntrospectionValidator" ELSE "JwtValidator"}
    /\ Bound(builder, "ClaimsCache") # {} <=>
            builder.oauthConfiguration.strategy = "claims-caching"

\* C20: register() selects one authorizer and one token validator from the
\* configuration (claims-caching: ClaimsCachingAuthorizer, any other
\* strategy: StandardAuthorizer; introspection: IntrospectionValidator, any
\* other: JwtValidator) and binds a ClaimsCache exactly under claims-caching;
\* before it nothing is selected, and no later step changes the selection.
C20_VariantsSelectedOnce ==
    /\ [](IF root.registered
          THEN SelectedBy(root)
          ELSE root.authorizer = "none" /\ root.bindings = {})
    /\ [][root.registered =>
            /\ root'.authorizer = root.authorizer
            /\ root'.bindings = root.bindings
            /\ root'.oauthConfiguration = root.oauthConfiguration]_vars

\* C20 witness: an unnamed strategy with an unnamed validation strategy was
\* registered and a request has been authorized by the standard authorizer
C20_Witness ==
    /\ root.registered
    /\ root.oauthConfiguration = [strategy |-> "unknown", tokenValidationStrategy |-> "unknown"]
    /\ root.authorizer = "StandardAuthorizer"
    /\ Bound(root, "TokenValidator") = {"JwtValidator"}
    /\ \E r \in Requests : req[r].authorized

\* ------------------------------------------------------------------------
\* Properties of what the claims cache holds and logs
\* ------------------------------------------------------------------------

\* The texts of the access tokens
TokenTexts == {token[i] : token \in RawTokens, i \in 1..1}

\* The cache and the log hold hashes and serialized claims only
OnlyDigests ==
    /\ DOMAIN cache = Digests
    /\ \A d \in Digests :
            cache[d] # NoEntry =>
                /\ d \notin TokenTexts
                /\ cache[d].v = serializeToCache(putLog[d].claims)
                /\ \A i \in {1, 3, 4} : cache[d].v[i] \notin TokenTexts
    /\ \A i \in 1..Len(traceLog) :
            /\ traceLog[i].hash \in Digests
            /\ traceLog[i].hash \notin TokenTexts
            /\ traceLog[i].text \notin TokenTexts

\* The step is a call of getClaimsForToken: its message ends the log
IsLookupStep ==
    /\ traceLog' # traceLog
    /\ traceLog'[Len(traceLog')].text \in
            {newTokenMessage("")["text"], foundTokenMessage("")["text"]}

\* The step is a call of addClaimsForToken that stored the claims
IsStoreStep ==
    /\ traceLog' # traceLog
    /\ traceLog'[Len(traceLog')].text = addingMessage(0, "")["text"]

StoreStep(r) == req[r].pc = "mwStore" /\ req'[r].pc # "mwStore"

C19_ExpiredAtPutIsNotCachedButAuthorized ==
    /\ [][\A r \in Requests :
            (StoreStep(r) /\ secondsToExpiry(req[r].claims, now) <= 0) =>
                /\ ret'.op = "add" /\ ret'.result = "skipped"
                /\ cache' = cache /\ putLog' = putLog
                /\ req'[r].pc = "mwReturned"
                /\ req'[r].success
                /\ req'[r].exception = NoException
                /\ req'[r].claims = req[r].claims]_vars
    /\ [](\A r \in Requests :
            (req[r].cacheCalls = 2 /\ req[r].pc = "done") =>
                /\ req[r].status = 200 /\ req[r].handled /\ req[r].authorized
                /\ req[r].locals = req[r].claims)

\* C19 witness: no claims were ever stored for the token tA, whose put came
\* after its expiry, and its request was handled with the assembled claims
C19_Witness ==
    /\ "hA" \in skipped
    /\ putLog["hA"] = NoPut /\ cache["hA"] = NoEntry
    /\ \E r \in Requests :
            /\ req[r].token = <<"tA">>
            /\ req[r].cacheCalls = 2 /\ req[r].assembled
            /\ req[r].handled /\ req[r].status = 200
            /\ req[r].locals = req[r].claims
            /\ req[r].claims # Null

\* ------------------------------------------------------------------------
\* Properties of startup
\* ------------------------------------------------------------------------

\* C13: the server listens only after configure() has completed with the
\* handlers mounted and the metadata loaded; when reading the configuration,
\* the metadata load or any other startup step fails, the failure is logged
\* as a startup error, the server never listens and no request is served.
C13_ListenOnlyAfterConfigure ==
    /\ startup.listening =>
            /\ startup.pc = "started"
            /\ startup.metadataLoaded
            /\ startup.mounted = Stack
            /\ startup.startupError = "none"
    /\ startup.pc = "failed" <=> startup.startupError # "none"
    /\ startup.startupError # "none" =>
            /\ ~startup.listening
            /\ \A r \in Requests : req[r].pc = "none"
    /\ \A r \in Requests :
            req[r].pc # "none" => startup.listening /\ startup.metadataLoaded

\* C13 witness: the metadata load failed after the handlers were mounted
C13_Witness ==
    /\ startup.startupError = "metadata_load"
    /\ startup.mounted = Stack
    /\ ~startup.metadataLoaded
    /\ ~startup.listening

\* ------------------------------------------------------------------------
\* Properties of the claims cache
\* ------------------------------------------------------------------------

Min(a, b) == IF a < b THEN a ELSE b

\* An entry that getClaimsForToken would return at this instant
Retrievable(d) == cache[d] # NoEntry /\ ~IsExpired(cache[d], now)

\* C1: every stored entry has a time to live of min(token expiry - now,
\* configured maximum), so that no entry is retrievable for longer than the
\* configured maximum after the put that stored it.
C1_TtlNeverExceedsMaximum ==
    \A d \in Digests :
        Retrievable(d) =>
            /\ putLog[d].ttl = Min(putLog[d].claims.expiry - epochSeconds(putLog[d].at), stdTTL)
            /\ now <= putLog[d].at + stdTTL * TicksPerSecond

\* C2: getClaimsForToken never returns claims at an instant later than the
\* expiry of the token they were stored for, nor later than the put time
\* plus the configured maximum.
C2_NoHitAfterLifetime ==
    (ret.op = "get" /\ ret.result # Null) =>
        /\ ret.at <= ret.result.expiry * TicksPerSecond
        /\ ret.at <= putLog[ret.digest].at + stdTTL * TicksPerSecond

\* C3: addClaimsForToken with a token expiry at or before the current time
\* leaves the cache unchanged, and a later getClaimsForToken for that hash
\* is a miss.
C3_ExpiredPutThenMiss ==
    [][/\ (ret' # ret /\ ret'.op = "add" /\ ret'.result = "skipped") => cache' = cache
       /\ (ret'.op = "get" /\ ret'.digest \in skipped) => ret'.result = Null]_vars

====
